---- MODULE Spec2Model ----
(***************************************************************************)
(* Model of the CoreDNS netbox plugin: the ServeDNS handler, its legacy    *)
(* and netbox-dns ("rich") lookups, the conversion of backend records to   *)
(* resource records, and the Ready capability probe.                       *)
(*                                                                         *)
(* Go strings are sequences of one-character strings, so that             *)
(* strings.Split, strconv.ParseInt, net.ParseIP and the zone suffix match  *)
(* are computed rather than assumed.                                       *)
(***************************************************************************)
EXTENDS Integers, Sequences, FiniteSets, TLC

\* ------------------------------------------------------------------------
\* Bounds of the model
\* ------------------------------------------------------------------------

\* longest "results" list of a first records/zones/legacy reply
MaxRecords == 2

\* ------------------------------------------------------------------------
\* Program constants
\* ------------------------------------------------------------------------

TypeA == 1
TypeNS == 2
TypeCNAME == 5
TypeSOA == 6
TypePTR == 12
TypeMX == 15
TypeTXT == 16
TypeAAAA == 28
TypeNone == 0
ClassINET == 1
RcodeSuccess == 0
RcodeServerFailure == 2
RcodeNameError == 3
StatusOK == 200
StatusForbidden == 403
familyIP4 == 4
familyIP6 == 6

\* ------------------------------------------------------------------------
\* Strings
\* ------------------------------------------------------------------------

Digits == <<"0", "1", "2", "3", "4", "5", "6", "7", "8", "9">>
HexDigits == Digits \o <<"a", "b", "c", "d", "e", "f">>

IsDigit(c) == \E k \in 1..10 : Digits[k] = c
DigitVal(c) == (CHOOSE k \in 1..10 : Digits[k] = c) - 1
IsHex(c) == \E k \in 1..16 : HexDigits[k] = c
HexVal(c) == (CHOOSE k \in 1..16 : HexDigits[k] = c) - 1

\* strings.Split(s, sep) for a one-character separator: n separators give
\* n+1 tokens, empty tokens included
RECURSIVE Split(_, _)
Split(s, sep) ==
    IF s = <<>> THEN << <<>> >>
    ELSE LET rest == Split(Tail(s), sep) IN
         IF Head(s) = sep THEN << <<>> >> \o rest
         ELSE << <<Head(s)>> \o Head(rest) >> \o Tail(rest)

\* strings.TrimRight(s, "."): every trailing dot is removed
RECURSIVE TrimRight(_)
TrimRight(s) ==
    IF s # <<>> /\ s[Len(s)] = "." THEN TrimRight(SubSeq(s, 1, Len(s) - 1))
    ELSE s

\* strings.TrimSuffix(s, "."): at most one trailing dot is removed
TrimSuffix(s) ==
    IF s # <<>> /\ s[Len(s)] = "." THEN SubSeq(s, 1, Len(s) - 1) ELSE s

RECURSIVE DecValue(_)
DecValue(s) ==
    IF s = <<>> THEN 0
    ELSE 10 * DecValue(SubSeq(s, 1, Len(s) - 1)) + DigitVal(s[Len(s)])

RECURSIVE HexValue(_)
HexValue(s) ==
    IF s = <<>> THEN 0
    ELSE 16 * HexValue(SubSeq(s, 1, Len(s) - 1)) + HexVal(s[Len(s)])

RECURSIVE StripZeros(_)
StripZeros(s) ==
    IF Len(s) > 1 /\ s[1] = "0" THEN StripZeros(Tail(s)) ELSE s

\* strconv.ParseInt(s, 10, 32): optional sign, one or more decimal digits,
\* value within the int32 range (-2147483648 .. 2147483647)
ParseInt(s) ==
    LET signed == s # <<>> /\ s[1] \in {"+", "-"}
        neg == signed /\ s[1] = "-"
        digits == IF signed THEN Tail(s) ELSE s
        wellFormed == digits # <<>> /\ \A k \in 1..Len(digits) : IsDigit(digits[k])
        sig == IF wellFormed THEN StripZeros(digits) ELSE <<"0">>
        high == DecValue(SubSeq(sig, 1, 9))
        low == DigitVal(sig[Len(sig)])
        inRange == \/ Len(sig) <= 9
                   \/ /\ Len(sig) = 10
                      /\ \/ high < 214748364
                         \/ high = 214748364 /\ low <= (IF neg THEN 8 ELSE 7)
        val == IF Len(sig) <= 9
               THEN (IF neg THEN 0 - DecValue(sig) ELSE DecValue(sig))
               ELSE IF neg THEN 0 - high * 10 - low ELSE high * 10 + low
    IN  IF wellFormed /\ inRange
        THEN [ok |-> TRUE, val |-> val]
        ELSE [ok |-> FALSE, val |-> 0]

\* uint16(v) of a signed integer: the low 16 bits
Uint16(v) == v % 65536

\* net.ParseIP, dotted-decimal form: four fields of one to three digits,
\* no leading zero, each at most 255
IsIPv4Field(f) ==
    /\ Len(f) \in 1..3
    /\ \A k \in 1..Len(f) : IsDigit(f[k])
    /\ (Len(f) > 1 => f[1] # "0")
    /\ DecValue(f) <= 255

ParseIPv4(s) ==
    LET fields == Split(s, ".") IN
    IF Len(fields) = 4 /\ \A k \in 1..4 : IsIPv4Field(fields[k])
    THEN [k \in 1..4 |-> DecValue(fields[k])]
    ELSE <<>>

\* net.ParseIP, colon-hexadecimal form (without embedded IPv4 or zone):
\* groups of one to four hex digits, at most one "::" standing for the
\* missing zero groups
ParseIPv6(s) ==
    LET raw == Split(s, ":")
        cnt == Len(raw)
        leadOK == raw[1] # <<>> \/ (cnt >= 2 /\ raw[2] = <<>>)
        trailOK == raw[cnt] # <<>> \/ (cnt >= 2 /\ raw[cnt - 1] = <<>>)
        lo == IF raw[1] = <<>> THEN 2 ELSE 1
        hi == IF cnt >= 3 /\ raw[cnt] = <<>> THEN cnt - 1 ELSE cnt
        parts == SubSeq(raw, lo, hi)
        gaps == {k \in 1..Len(parts) : parts[k] = <<>>}
        groupOK(g) == Len(g) \in 1..4 /\ \A k \in 1..Len(g) : IsHex(g[k])
        groups == Len(parts) - Cardinality(gaps)
        gap == IF gaps = {} THEN 0 ELSE CHOOSE k \in gaps : TRUE
    IN  IF /\ cnt >= 2
           /\ leadOK /\ trailOK
           /\ Cardinality(gaps) <= 1
           /\ \A k \in 1..Len(parts) : k \in gaps \/ groupOK(parts[k])
           /\ IF gaps = {} THEN groups = 8 ELSE groups <= 7
        THEN [k \in 1..8 |->
                IF gap = 0 THEN HexValue(parts[k])
                ELSE IF k < gap THEN HexValue(parts[k])
                ELSE IF k <= 8 - (Len(parts) - gap) THEN 0
                ELSE HexValue(parts[k - (8 - Len(parts))])]
        ELSE <<>>

\* net.ParseIP: the parsed address, or nil (the empty sequence)
ParseIP(s) ==
    IF ParseIPv4(s) # <<>> THEN ParseIPv4(s) ELSE ParseIPv6(s)

\* ------------------------------------------------------------------------
\* Record model (querydns.go)
\* ------------------------------------------------------------------------

\* DNSRecordReverseMap: the numeric type of a backend record type; a type
\* that is no key of the map reads as the zero value
DNSRecordReverseMap(t) ==
    CASE t = "A" -> TypeA
      [] t = "AAAA" -> TypeAAAA
      [] t = "PTR" -> TypePTR
      [] t = "CNAME" -> TypeCNAME
      [] t = "NS" -> TypeNS
      [] t = "SOA" -> TypeSOA
      [] t = "MX" -> TypeMX
      [] t = "TXT" -> TypeTXT
      [] OTHER -> 0

\* RR_Header that takes a ttl of zero for "no ttl" and puts a default of
\* one hour in its place
RR_HeaderSubstitutesTTL(name, rrtype, class, ttl) ==
    [Name |-> name, Rrtype |-> rrtype, Class |-> class,
     Ttl |-> IF ttl = 0 THEN 3600 ELSE ttl]

\* dns.RR_Header
RR_Header(name, rrtype, class, ttl) ==
    [Name |-> name, Rrtype |-> rrtype, Class |-> class, Ttl |-> ttl]

\* A dns.RR value. Kind is the Go type behind the interface; the fields a
\* kind does not have hold their zero value. Host is CNAME.Target, PTR.Ptr,
\* NS.Ns, MX.Mx and SOA.Ns.
MakeRR(kind, hdr) ==
    [Kind |-> kind, Hdr |-> hdr, IP |-> <<>>, Host |-> <<>>, Preference |-> 0,
     Txt |-> <<>>, Mbox |-> <<>>, Serial |-> 0, Refresh |-> 0, Retry |-> 0,
     Expire |-> 0, Minttl |-> 0]

\* &dns.NULL{}
NullRR == MakeRR("NULL", RR_Header(<<>>, 0, 0, 0))

\* func (r *DNSRecord) RR() dns.RR
RR(r) ==
    LET header == RR_Header(r.FQDN, DNSRecordReverseMap(r.Type), ClassINET, r.TTL)
        prefAndHost == Split(r.AbsoluteValue, " ")
        preference == ParseInt(prefAndHost[1])
    IN  CASE r.Type = "A" -> [MakeRR("A", header) EXCEPT !.IP = ParseIP(r.AbsoluteValue)]
          [] r.Type = "AAAA" -> [MakeRR("AAAA", header) EXCEPT !.IP = ParseIP(r.AbsoluteValue)]
          [] r.Type = "CNAME" -> [MakeRR("CNAME", header) EXCEPT !.Host = r.AbsoluteValue]
          [] r.Type = "PTR" -> [MakeRR("PTR", header) EXCEPT !.Host = r.AbsoluteValue]
          [] r.Type = "NS" -> [MakeRR("NS", header) EXCEPT !.Host = r.AbsoluteValue]
          [] r.Type = "MX" ->
                IF Len(prefAndHost) # 2 THEN NullRR
                ELSE IF ~preference.ok THEN NullRR
                ELSE [MakeRR("MX", header) EXCEPT
                        !.Preference = Uint16(preference.val),
                        !.Host = prefAndHost[2]]
          [] r.Type = "TXT" -> [MakeRR("TXT", header) EXCEPT !.Txt = <<r.AbsoluteValue>>]
          [] OTHER -> NullRR

\* ZoneRR with the refresh and expire timers in each other's place
ZoneRRSwapsTimers(z) ==
    [MakeRR("SOA", RR_Header(z.Name \o <<".">>, TypeSOA, ClassINET, z.TTL)) EXCEPT
        !.Host = z.MName \o <<".">>,
        !.Mbox = z.RName \o <<".">>,
        !.Serial = z.Serial,
        !.Expire = z.Refresh,
        !.Refresh = z.Expire,
        !.Retry = z.Retry,
        !.Minttl = z.Minimum]

\* func (z *DNSZone) RR() dns.RR
ZoneRR(z) ==
    [MakeRR("SOA", RR_Header(z.Name \o <<".">>, TypeSOA, ClassINET, z.TTL)) EXCEPT
        !.Host = z.MName \o <<".">>,
        !.Mbox = z.RName \o <<".">>,
        !.Serial = z.Serial,
        !.Expire = z.Expire,
        !.Refresh = z.Refresh,
        !.Retry = z.Retry,
        !.Minttl = z.Minimum]

\* DNSQueryReverseMap with a default entry: a type without an entry is
\* asked for as itself
DNSQueryReverseMapDefault(qtype) ==
    CASE qtype = TypeA -> <<"A", "CNAME">>
      [] qtype = TypeAAAA -> <<"AAAA", "CNAME">>
      [] qtype = TypePTR -> <<"PTR">>
      [] qtype = TypeCNAME -> <<"CNAME">>
      [] qtype = TypeNS -> <<"NS">>
      [] qtype = TypeMX -> <<"MX">>
      [] qtype = TypeTXT -> <<"TXT">>
      [] OTHER -> <<"ANY">>

\* DNSQueryReverseMap in which an address question asks for addresses only
DNSQueryReverseMapOwnType(qtype) ==
    CASE qtype = TypeA -> <<"A">>
      [] qtype = TypeAAAA -> <<"AAAA">>
      [] qtype = TypePTR -> <<"PTR">>
      [] qtype = TypeCNAME -> <<"CNAME">>
      [] qtype = TypeNS -> <<"NS">>
      [] qtype = TypeMX -> <<"MX">>
      [] qtype = TypeTXT -> <<"TXT">>
      [] OTHER -> <<>>

\* DNSQueryReverseMap: the type= parameters a question type asks the
\* backend for; the empty sequence stands for "no entry" (the OK flag of
\* the map read is false)
DNSQueryReverseMap(qtype) ==
    CASE qtype = TypeA -> <<"A", "CNAME">>
      [] qtype = TypeAAAA -> <<"AAAA", "CNAME">>
      [] qtype = TypePTR -> <<"PTR">>
      [] qtype = TypeCNAME -> <<"CNAME">>
      [] qtype = TypeNS -> <<"NS">>
      [] qtype = TypeMX -> <<"MX">>
      [] qtype = TypeTXT -> <<"TXT">>
      [] OTHER -> <<>>

\* ------------------------------------------------------------------------
\* Zones (plugin.Zones, fall.F)
\* ------------------------------------------------------------------------

\* the labels of a domain name, the root having none
Labels(name) ==
    IF TrimSuffix(name) = <<>> THEN <<>> ELSE Split(TrimSuffix(name), ".")

\* dns.IsSubDomain(parent, child): the labels of parent end the labels of child
IsSubDomain(parent, child) ==
    LET p == Labels(parent)
        c == Labels(child)
    IN  /\ Len(p) <= Len(c)
        /\ SubSeq(c, Len(c) - Len(p) + 1, Len(c)) = p

\* Matches with the suffix test lost: a name outside every zone is taken
\* to lie in the first one
MatchesOrFirst(zones, qname) ==
    LET hits == {k \in 1..Len(zones) : IsSubDomain(zones[k], qname)}
    IN  IF zones = <<>> THEN <<>>
        ELSE IF hits = {} THEN zones[1]
        ELSE zones[CHOOSE k \in hits : \A j \in hits : Len(zones[j]) <= Len(zones[k])]

\* Matches that stops at the first configured zone the name lies in
MatchesFirst(zones, qname) ==
    LET hits == {k \in 1..Len(zones) : IsSubDomain(zones[k], qname)}
    IN  IF hits = {} THEN <<>> ELSE zones[CHOOSE k \in hits : \A j \in hits : k <= j]

\* plugin.Zones(zones).Matches(qname): the longest configured zone the name
\* lies in, the first one among equally long ones; "" when there is none
Matches(zones, qname) ==
    LET hits == {k \in 1..Len(zones) : IsSubDomain(zones[k], qname)}
        best == CHOOSE k \in hits :
                    \A j \in hits : \/ Len(zones[j]) < Len(zones[k])
                                    \/ (Len(zones[j]) = Len(zones[k]) /\ k <= j)
    IN  IF hits = {} THEN <<>> ELSE zones[best]

\* Through that looks only at whether fallthrough is configured
ThroughAnyZone(fall, qname) == fall # <<>>

\* n.Fall.Through(qname)
Through(fall, qname) == Matches(fall, qname) # <<>>

\* ------------------------------------------------------------------------
\* The data the model draws its inputs from
\* ------------------------------------------------------------------------

Root == <<".">>
ZoneOrg == <<"o", ".">>
ZoneExample == <<"e", ".", "o", ".">>
NameAlias == <<"a", ".", "e", ".", "o", ".">>
NameMail == <<"m", ".", "e", ".", "o", ".">>
NameOther == <<"x", ".", "n", ".">>

QNames == {NameAlias, NameMail, NameOther}
QTypes == {TypeA, TypeAAAA, TypePTR, TypeCNAME, TypeNS, TypeSOA, TypeMX, TypeTXT, TypeNone}

ZoneConfigs == {<<ZoneExample>>, <<ZoneOrg, ZoneExample>>}
\* no fallthrough, fallthrough without zones (the root), and fallthrough
\* for one zone: a parent of every authoritative zone, or a part of one
FallConfigs == {<<>>, <<Root>>, <<ZoneOrg>>, <<NameMail>>}

DNSRecord(type, ttl, absoluteValue, fqdn) ==
    [Type |-> type, TTL |-> ttl, AbsoluteValue |-> absoluteValue, FQDN |-> fqdn]

RecCNAME == DNSRecord("CNAME", 8600, NameMail, NameAlias)
RecA == DNSRecord("A", 8600, <<"1", ".", "2", ".", "3", ".", "4">>, NameMail)
RecMX == DNSRecord("MX", 8600, <<"1", "0", " ">> \o NameMail, ZoneExample)
RecMXNoSpace == DNSRecord("MX", 8600, NameMail, ZoneExample)

BackendRecords == {RecCNAME, RecA, RecMX, RecMXNoSpace}

DNSZone(name, mname, rname, serial, refresh, retry, expire, minimum, ttl) ==
    [Name |-> name, MName |-> mname, RName |-> rname, Serial |-> serial,
     Refresh |-> refresh, Retry |-> retry, Expire |-> expire,
     Minimum |-> minimum, TTL |-> ttl]

ZoneRec == DNSZone(<<"e", ".", "o">>, <<"n", ".", "e", ".", "o">>,
                   <<"h", ".", "e", ".", "o">>, 17, 43, 72, 24, 36, 86)

BackendZones == {ZoneRec}

\* an entry of a legacy reply: the address of its "address" member, and the
\* number of a "ttl" member, 0 when the entry has none
LegacyEntry(address, ttl) == [Address |-> address, TTL |-> ttl]

LegacyIPs == {LegacyEntry(<<1, 2, 3, 4>>, 0), LegacyEntry(<<1, 2, 3, 5>>, 8600)}
LegacyDomains == {NameMail, NameAlias}

\* the sequences over S of length at most n
SeqsUpTo(S, n) == UNION {[1..k -> S] : k \in 0..n}

\* An HTTP reply of the backend: a transport error, or a status and a JSON
\* body. syntaxOK: the body is well-formed JSON; typesOK: every member has
\* the JSON type the Go field needs; hasResults: the object has a "results"
\* member; results: the entries encoding/json stores in the target.
Reply(transport, status, syntaxOK, typesOK, hasResults, results) ==
    [transport |-> transport, status |-> status, syntaxOK |-> syntaxOK,
     typesOK |-> typesOK, hasResults |-> hasResults, results |-> results]

Replies(full, partial) ==
    {Reply("err", 0, FALSE, FALSE, FALSE, <<>>),
     Reply("ok", StatusForbidden, FALSE, FALSE, FALSE, <<>>),
     Reply("ok", StatusOK, FALSE, FALSE, FALSE, <<>>),
     Reply("ok", StatusOK, TRUE, TRUE, FALSE, <<>>)}
    \cup {Reply("ok", StatusOK, TRUE, FALSE, TRUE, l) : l \in partial}
    \cup {Reply("ok", StatusOK, TRUE, TRUE, TRUE, l) : l \in full}

\* replies to the first records lookup of a question, to the lookup of an
\* alias target, and to a zone lookup
RecordReplies == Replies(SeqsUpTo(BackendRecords, MaxRecords), SeqsUpTo(BackendRecords, 1))
TargetReplies == Replies(SeqsUpTo(BackendRecords, 1), {<<>>})
ZoneReplies == Replies(SeqsUpTo(BackendZones, MaxRecords), SeqsUpTo(BackendZones, 1))

\* replies to the legacy lookups
IPReplies == Replies(SeqsUpTo(LegacyIPs, MaxRecords), {<<>>})
DomainReplies == Replies(SeqsUpTo(LegacyDomains, MaxRecords), {<<>>})

\* replies to the status request of the probe: results holds the version
\* of the netbox_dns app, "" when the app is not installed
StatusReplies == Replies({<<>>, <<"1", ".", "2", ".", "6">>}, {})

\* ------------------------------------------------------------------------
\* State
\* ------------------------------------------------------------------------

\* the goroutines that serve questions; Workers are those that run under Spec
Slots == {1, 2}
Workers == {1}

VARIABLES
    n,      \* the Netbox struct shared by all questions
    ready,  \* what the last call of Ready returned
    req     \* per goroutine: the call of ServeDNS it is in

vars == <<n, ready, req>>

\* no error
nil == "nil"

\* a call of a backend function, as the backend sees it
Lookup(fn, zone, fqdn, querySet, family) ==
    [fn |-> fn, zone |-> zone, fqdn |-> fqdn, querySet |-> querySet, family |-> family]

\* a dns.Msg written to the client
Msg(rcode, answer) == [Rcode |-> rcode, Authoritative |-> TRUE, Answer |-> answer]

\* what ServeDNS returns: from is "next" when the values are those of the
\* next handler
Return(from, rcode, err) == [from |-> from, rcode |-> rcode, err |-> err]

\* a goroutine that is in no call, and the locals of a call that starts
Idle ==
    [pc |-> "idle", qname |-> <<>>, qtype |-> 0, zone |-> <<>>, mode |-> "none",
     records |-> <<>>, zones |-> <<>>, ips |-> <<>>, domains |-> <<>>,
     len |-> 0, i |-> 0, answers |-> <<>>, err |-> nil,
     lookups |-> <<>>, replies |-> <<>>,
     msgs |-> <<>>, delegated |-> 0, ret |-> Return("none", 0, nil)]

Init ==
    /\ n \in [Url : {"https://example.org"}, Token : {"s3kr3tt0ken"},
              TTL : {3600}, Fall : FallConfigs, Zones : ZoneConfigs,
              UsePlugin : {FALSE}]
    /\ ready = FALSE
    /\ req = [s \in Slots |-> Idle]

\* ------------------------------------------------------------------------
\* Backend lookups
\* ------------------------------------------------------------------------

\* Decode that rejects an object without a "results" member
DecodeRequiresResults(reply) ==
    [out |-> IF reply.syntaxOK /\ reply.hasResults THEN reply.results ELSE <<>>,
     err |-> IF reply.syntaxOK /\ reply.typesOK /\ reply.hasResults
             THEN nil ELSE "could not unmarshal response"]

\* decoder.Decode(&target): a syntax error stores nothing; a member of the
\* wrong JSON type is reported after the rest of the value has been stored
Decode(reply) ==
    [out |-> IF reply.syntaxOK /\ reply.hasResults THEN reply.results ELSE <<>>,
     err |-> IF reply.syntaxOK /\ reply.typesOK THEN nil ELSE "could not unmarshal response"]

\* queryRecord without the check of the status code
queryRecordAnyStatus(reply) ==
    IF reply.transport # "ok"
    THEN [out |-> <<>>, err |-> "problem performing request"]
    ELSE IF Decode(reply).err # nil /\ reply.status = StatusOK
    THEN [out |-> Decode(reply).out, err |-> "could not unmarshal response"]
    ELSE [out |-> Decode(reply).out, err |-> nil]

\* func (n *Netbox) queryRecord(zone, fqdn, querySet) ([]DNSRecord, error)
queryRecord(reply) ==
    IF reply.transport # "ok"
    THEN [out |-> <<>>, err |-> "problem performing request"]
    ELSE IF reply.status # StatusOK
    THEN [out |-> <<>>, err |-> "bad HTTP response code"]
    ELSE IF Decode(reply).err # nil
    THEN [out |-> Decode(reply).out, err |-> "could not unmarshal response"]
    ELSE [out |-> Decode(reply).out, err |-> nil]

\* func (n *Netbox) queryZone(zone) ([]DNSZone, error)
queryZone(reply) ==
    IF reply.transport # "ok"
    THEN [out |-> <<>>, err |-> "problem performing request"]
    ELSE IF reply.status # StatusOK
    THEN [out |-> <<>>, err |-> "bad HTTP response code"]
    ELSE IF Decode(reply).err # nil
    THEN [out |-> Decode(reply).out, err |-> "could not unmarshal response"]
    ELSE [out |-> Decode(reply).out, err |-> nil]

\* func (n *Netbox) query(host, family) ([]net.IP, error): the addresses of
\* the entries of the reply and nothing else of them, or a lookup error
query(reply) ==
    IF reply.transport = "ok" /\ reply.status = StatusOK /\ Decode(reply).err = nil
    THEN [out |-> [k \in 1..Len(Decode(reply).out) |-> Decode(reply).out[k].Address],
          err |-> nil]
    ELSE [out |-> <<>>, err |-> "lookup failed"]

\* func (n *Netbox) queryreverse(qname) ([]string, error)
queryreverse(reply) ==
    IF reply.transport = "ok" /\ reply.status = StatusOK /\ Decode(reply).err = nil
    THEN [out |-> Decode(reply).out, err |-> nil]
    ELSE [out |-> <<>>, err |-> "lookup failed"]

\* ------------------------------------------------------------------------
\* ServeDNS
\* ------------------------------------------------------------------------

\* plugin.NextOrFailure(n.Name(), n.Next, ctx, w, r): the question goes to
\* the next handler, whose results ServeDNS returns
NextOrFailure(r) ==
    [r EXCEPT !.pc = "done", !.delegated = @ + 1, !.ret = Return("next", 0, nil)]

\* dnserror that does not hand the error back
dnserrorNoErr(r, rcode, err) ==
    [r EXCEPT !.pc = "done",
              !.msgs = Append(@, Msg(rcode, <<>>)),
              !.ret = Return("netbox", RcodeSuccess, nil)]

\* func dnserror(rcode, state, err) (int, error)
dnserror(r, rcode, err) ==
    [r EXCEPT !.pc = "done",
              !.msgs = Append(@, Msg(rcode, <<>>)),
              !.ret = Return("netbox", RcodeSuccess, err)]

\* Respond that writes SERVFAIL before it falls through on an error
RespondWritesAndDelegates(r, fall) ==
    IF r.err # nil
    THEN IF Through(fall, r.qname)
         THEN NextOrFailure([r EXCEPT !.msgs = Append(@, Msg(RcodeServerFailure, <<>>))])
         ELSE dnserror(r, RcodeServerFailure, r.err)
    ELSE IF Len(r.answers) = 0
    THEN IF Through(fall, r.qname)
         THEN NextOrFailure(r)
         ELSE dnserror(r, RcodeNameError, nil)
    ELSE [r EXCEPT !.pc = "done",
                   !.msgs = Append(@, Msg(RcodeSuccess, r.answers)),
                   !.ret = Return("netbox", RcodeSuccess, nil)]

\* Respond that never falls through when there are no answers
RespondNameErrorAlways(r, fall) ==
    IF r.err # nil
    THEN IF Through(fall, r.qname)
         THEN NextOrFailure(r)
         ELSE dnserror(r, RcodeServerFailure, r.err)
    ELSE IF Len(r.answers) = 0
    THEN dnserror(r, RcodeNameError, nil)
    ELSE [r EXCEPT !.pc = "done",
                   !.msgs = Append(@, Msg(RcodeSuccess, r.answers)),
                   !.ret = Return("netbox", RcodeSuccess, nil)]

\* Respond that tests fallthrough before it looks at the answers
RespondFallthroughFirst(r, fall) ==
    IF Through(fall, r.qname) /\ r.err = nil
    THEN NextOrFailure(r)
    ELSE IF r.err # nil
    THEN IF Through(fall, r.qname)
         THEN NextOrFailure(r)
         ELSE dnserror(r, RcodeServerFailure, r.err)
    ELSE IF Len(r.answers) = 0
    THEN dnserror(r, RcodeNameError, nil)
    ELSE [r EXCEPT !.pc = "done",
                   !.msgs = Append(@, Msg(RcodeSuccess, r.answers)),
                   !.ret = Return("netbox", RcodeSuccess, nil)]

\* ServeDNS from the return of queryDNSPlugin or queryNative on: the
\* disposition of the question
Respond(r, fall) ==
    IF r.err # nil
    THEN IF Through(fall, r.qname)
         THEN NextOrFailure(r)
         ELSE dnserror(r, RcodeServerFailure, r.err)
    ELSE IF Len(r.answers) = 0
    THEN IF Through(fall, r.qname)
         THEN NextOrFailure(r)
         ELSE dnserror(r, RcodeNameError, nil)
    ELSE [r EXCEPT !.pc = "done",
                   !.msgs = Append(@, Msg(RcodeSuccess, r.answers)),
                   !.ret = Return("netbox", RcodeSuccess, nil)]

\* the question is A or AAAA and the record is a CNAME: its target is looked up
IsAlias(r, k) ==
    r.records[k].Type = "CNAME" /\ (r.qtype = TypeA \/ r.qtype = TypeAAAA)

\* ResolveLoop that reads the mode flag again at each alias and looks the
\* target up with the lookup of the mode it finds
ResolveLoopRereadsMode(r, fall) ==
    LET stops == {k \in r.i..r.len : IsAlias(r, k)}
        j == IF stops = {} THEN r.len + 1 ELSE CHOOSE k \in stops : \A m \in stops : k <= m
        converted == [k \in 1..(j - r.i) |-> RR(r.records[r.i + k - 1])]
        soas == [k \in 1..Len(r.zones) |-> ZoneRR(r.zones[k])]
    IN  IF j <= r.len
        THEN [r EXCEPT !.pc = "resolve", !.i = j,
                       !.answers = @ \o converted,
                       !.lookups = Append(@,
                            IF n.UsePlugin
                            THEN Lookup("queryRecord", r.zone, r.records[j].AbsoluteValue,
                                        DNSQueryReverseMap(r.qtype), 0)
                            ELSE Lookup("query", <<>>, TrimRight(r.records[j].AbsoluteValue),
                                        <<>>, familyIP4))]
        ELSE Respond([r EXCEPT !.i = j, !.answers = @ \o converted \o soas], fall)

\* ResolveLoop whose loop runs to the end of the slice as it grows, so that
\* the records of an alias target are themselves looped over
ResolveLoopGrowing(r, fall) ==
    LET stops == {k \in r.i..Len(r.records) : IsAlias(r, k)}
        j == IF stops = {} THEN Len(r.records) + 1
             ELSE CHOOSE k \in stops : \A m \in stops : k <= m
        converted == [k \in 1..(j - r.i) |-> RR(r.records[r.i + k - 1])]
        soas == [k \in 1..Len(r.zones) |-> ZoneRR(r.zones[k])]
    IN  IF j <= Len(r.records)
        THEN [r EXCEPT !.pc = "resolve", !.i = j,
                       !.answers = @ \o converted,
                       !.lookups = Append(@, Lookup("queryRecord", r.zone,
                                              r.records[j].AbsoluteValue,
                                              DNSQueryReverseMap(r.qtype), 0))]
        ELSE Respond([r EXCEPT !.i = j, !.answers = @ \o converted \o soas], fall)

\* queryDNSPlugin, the loop over the records of the first lookup: the range
\* expression is evaluated once, so the loop ends at the length the slice
\* had when it began (len). The records from i up to the next alias are
\* converted; at an alias the lookup of its target is sent, and past the
\* last record the zones are converted and ServeDNS disposes of the answers.
ResolveLoop(r, fall) ==
    LET stops == {k \in r.i..r.len : IsAlias(r, k)}
        j == IF stops = {} THEN r.len + 1 ELSE CHOOSE k \in stops : \A m \in stops : k <= m
        converted == [k \in 1..(j - r.i) |-> RR(r.records[r.i + k - 1])]
        soas == [k \in 1..Len(r.zones) |-> ZoneRR(r.zones[k])]
    IN  IF j <= r.len
        THEN [r EXCEPT !.pc = "resolve", !.i = j,
                       !.answers = @ \o converted,
                       !.lookups = Append(@, Lookup("queryRecord", r.zone,
                                              r.records[j].AbsoluteValue,
                                              DNSQueryReverseMap(r.qtype), 0))]
        ELSE Respond([r EXCEPT !.i = j, !.answers = @ \o converted \o soas], fall)

\* a that leaves the ttl of the header unset
aNoTTL(zone, ttl, ips) ==
    [k \in 1..Len(ips) |->
        [MakeRR("A", RR_Header(zone, TypeA, ClassINET, 0)) EXCEPT !.IP = ips[k]]]

\* func a(zone, ttl, ips) []dns.RR
a(zone, ttl, ips) ==
    [k \in 1..Len(ips) |->
        [MakeRR("A", RR_Header(zone, TypeA, ClassINET, ttl)) EXCEPT !.IP = ips[k]]]

\* func aaaa(zone, ttl, ips) []dns.RR
aaaa(zone, ttl, ips) ==
    [k \in 1..Len(ips) |->
        [MakeRR("AAAA", RR_Header(zone, TypeAAAA, ClassINET, ttl)) EXCEPT !.IP = ips[k]]]

\* func ptr(zone, ttl, domains) []dns.RR
ptr(zone, ttl, domains) ==
    [k \in 1..Len(domains) |->
        [MakeRR("PTR", RR_Header(zone, TypePTR, ClassINET, ttl)) EXCEPT !.Host = domains[k]]]

\* ServeDNS up to the first backend request: the zone match, the read of
\* the mode flag, and queryDNSPlugin or queryNative up to their lookup. A
\* question outside every zone goes to the next handler; one whose type the
\* mode does not serve is disposed of with "request type not implemented".
ServeDNS(s, qname, qtype) ==
    LET zone == Matches(n.Zones, qname)
        call == [Idle EXCEPT !.qname = qname, !.qtype = qtype, !.zone = zone]
        rich == [call EXCEPT !.mode = "plugin"]
        native == [call EXCEPT !.mode = "native"]
        notImplemented(r) == Respond([r EXCEPT !.err = "request type not implemented"], n.Fall)
        send(r, pc, lookup) == [r EXCEPT !.pc = pc, !.lookups = <<lookup>>]
    IN  /\ req[s].pc = "idle"
        /\ req' = [req EXCEPT ![s] =
             IF zone = <<>> THEN NextOrFailure(call)
             ELSE IF n.UsePlugin
             THEN IF qtype = TypeSOA
                  THEN send(rich, "queryZone", Lookup("queryZone", zone, <<>>, <<>>, 0))
                  ELSE IF DNSQueryReverseMap(qtype) = <<>>
                  THEN notImplemented(rich)
                  ELSE send(rich, "queryRecord",
                            Lookup("queryRecord", zone, qname, DNSQueryReverseMap(qtype), 0))
             ELSE CASE qtype = TypeA ->
                         send(native, "query", Lookup("query", <<>>, TrimRight(qname), <<>>, familyIP4))
                    [] qtype = TypeAAAA ->
                         send(native, "query", Lookup("query", <<>>, TrimRight(qname), <<>>, familyIP6))
                    [] qtype = TypePTR ->
                         send(native, "queryreverse", Lookup("queryreverse", <<>>, qname, <<>>, 0))
                    [] OTHER -> notImplemented(native)]
        /\ UNCHANGED <<n, ready>>

\* RecordsReply that keeps the records in a place all questions share: the
\* records of the reply become the records of every question in flight
RecordsReplySharedRecords(s, reply) ==
    LET r == req[s]
        res == queryRecord(reply)
    IN  /\ r.pc = "queryRecord"
        /\ req' = [t \in Slots |->
             IF t = s
             THEN ResolveLoop([r EXCEPT !.records = res.out, !.err = res.err,
                                        !.len = Len(res.out), !.i = 1,
                                        !.replies = Append(@, reply)], n.Fall)
             ELSE IF req[t].pc = "idle" THEN req[t]
             ELSE [req[t] EXCEPT !.records = res.out]]
        /\ UNCHANGED <<n, ready>>

\* queryDNSPlugin: the first queryRecord returns, and the loop over its
\* records runs up to the first alias or to the end
RecordsReply(s, reply) ==
    LET r == req[s]
        res == queryRecord(reply)
    IN  /\ r.pc = "queryRecord"
        /\ req' = [req EXCEPT ![s] =
             ResolveLoop([r EXCEPT !.records = res.out, !.err = res.err,
                                   !.len = Len(res.out), !.i = 1,
                                   !.replies = Append(@, reply)], n.Fall)]
        /\ UNCHANGED <<n, ready>>

\* TargetReply that keeps the error of the target lookup as the error of
\* the question
TargetReplyKeepsErr(s, reply) ==
    LET r == req[s]
        res == queryRecord(reply)
    IN  /\ r.pc = "resolve"
        /\ req' = [req EXCEPT ![s] =
             ResolveLoop([r EXCEPT !.records = IF res.err = nil THEN @ \o res.out ELSE @,
                                   !.err = res.err,
                                   !.answers = Append(@, RR(r.records[r.i])),
                                   !.i = @ + 1,
                                   !.replies = Append(@, reply)], n.Fall)]
        /\ UNCHANGED <<n, ready>>

\* queryDNSPlugin: the queryRecord of an alias target returns. Its records
\* are appended to records unless it failed, its error is dropped, the
\* alias itself is converted and the loop goes on.
TargetReply(s, reply) ==
    LET r == req[s]
        res == queryRecord(reply)
    IN  /\ r.pc = "resolve"
        /\ req' = [req EXCEPT ![s] =
             ResolveLoop([r EXCEPT !.records = IF res.err = nil THEN @ \o res.out ELSE @,
                                   !.answers = Append(@, RR(r.records[r.i])),
                                   !.i = @ + 1,
                                   !.replies = Append(@, reply)], n.Fall)]
        /\ UNCHANGED <<n, ready>>

\* queryDNSPlugin for an SOA question: queryZone returns, the zones are
\* converted
ZoneReply(s, reply) ==
    LET r == req[s]
        res == queryZone(reply)
    IN  /\ r.pc = "queryZone"
        /\ req' = [req EXCEPT ![s] =
             ResolveLoop([r EXCEPT !.zones = res.out, !.err = res.err,
                                   !.len = 0, !.i = 1,
                                   !.replies = Append(@, reply)], n.Fall)]
        /\ UNCHANGED <<n, ready>>

\* queryNative for an A or AAAA question: query returns
AddressReply(s, reply) ==
    LET r == req[s]
        res == query(reply)
        answers == IF r.qtype = TypeA THEN a(r.qname, n.TTL, res.out)
                   ELSE aaaa(r.qname, n.TTL, res.out)
    IN  /\ r.pc = "query"
        /\ req' = [req EXCEPT ![s] =
             Respond([r EXCEPT !.ips = res.out, !.err = res.err,
                               !.answers = answers,
                               !.replies = Append(@, reply)], n.Fall)]
        /\ UNCHANGED <<n, ready>>

\* queryNative for a PTR question: queryreverse returns
ReverseReply(s, reply) ==
    LET r == req[s]
        res == queryreverse(reply)
    IN  /\ r.pc = "queryreverse"
        /\ req' = [req EXCEPT ![s] =
             Respond([r EXCEPT !.domains = res.out, !.err = res.err,
                               !.answers = ptr(r.qname, n.TTL, res.out),
                               !.replies = Append(@, reply)], n.Fall)]
        /\ UNCHANGED <<n, ready>>

\* ServeDNS has returned: the goroutine is free for the next question, and
\* nothing of the call is kept
Finish(s) ==
    /\ req[s].pc = "done"
    /\ req' = [req EXCEPT ![s] = Idle]
    /\ UNCHANGED <<n, ready>>

\* Ready that falls back to legacy mode when the probe fails
ReadyResetsFlag(reply) ==
    /\ IF reply.transport # "ok" \/ reply.status # StatusOK \/ Decode(reply).err # nil
       THEN /\ ready' = FALSE
            /\ n' = [n EXCEPT !.UsePlugin = FALSE]
       ELSE /\ ready' = TRUE
            /\ n' = [n EXCEPT !.UsePlugin = Decode(reply).out # <<>>]
    /\ UNCHANGED req

\* func (n *Netbox) Ready() bool
Ready(reply) ==
    /\ IF reply.transport # "ok" \/ reply.status # StatusOK \/ Decode(reply).err # nil
       THEN /\ ready' = FALSE
            /\ UNCHANGED n
       ELSE /\ ready' = TRUE
            /\ n' = [n EXCEPT !.UsePlugin = Decode(reply).out # <<>>]
    /\ UNCHANGED req

Next ==
    \/ \E s \in Workers, qname \in QNames, qtype \in QTypes : ServeDNS(s, qname, qtype)
    \/ \E s \in Workers, reply \in RecordReplies : RecordsReply(s, reply)
    \/ \E s \in Workers, reply \in TargetReplies : TargetReply(s, reply)
    \/ \E s \in Workers, reply \in ZoneReplies : ZoneReply(s, reply)
    \/ \E s \in Workers, reply \in IPReplies : AddressReply(s, reply)
    \/ \E s \in Workers, reply \in DomainReplies : ReverseReply(s, reply)
    \/ \E s \in Workers : Finish(s)
    \/ \E reply \in StatusReplies : Ready(reply)

Spec == Init /\ [][Next]_vars

\* ------------------------------------------------------------------------
\* Properties
\* ------------------------------------------------------------------------

\* the question of goroutine s has been disposed of
Done(s) == req[s].pc = "done"

\* the backend reply is a transport error, a status other than 200, or a
\* body encoding/json rejects
Failed(reply) ==
    \/ reply.transport # "ok"
    \/ reply.status # StatusOK
    \/ ~reply.syntaxOK
    \/ ~reply.typesOK

NotImplemented == "request type not implemented"

\* C1: every question ServeDNS has handled ended in exactly one terminal
\* action, the hand-over to the next handler or one written message, and a
\* question still in progress has had neither.
C1_ExactlyOneTerminalAction ==
    \A s \in Slots :
        /\ Done(s) => req[s].delegated + Len(req[s].msgs) = 1
        /\ ~Done(s) => req[s].delegated = 0 /\ req[s].msgs = <<>>

C1_Witness ==
    \E s \in Slots :
        /\ Done(s)
        /\ req[s].err # nil
        /\ Len(req[s].msgs) = 1
        /\ req[s].delegated = 0

\* C2: a lookup error in a matched zone is delegated without any write
\* when fallthrough covers the name, and is otherwise answered by one
\* authoritative SERVFAIL without answers, not delegated, the error being
\* returned to the host.
C2_LookupErrorDisposition ==
    \A s \in Slots :
        (Done(s) /\ req[s].zone # <<>> /\ req[s].err # nil /\ req[s].err # NotImplemented) =>
            IF Through(n.Fall, req[s].qname)
            THEN /\ req[s].delegated = 1
                 /\ req[s].msgs = <<>>
                 /\ req[s].ret.from = "next"
            ELSE /\ req[s].delegated = 0
                 /\ req[s].msgs = <<[Rcode |-> RcodeServerFailure,
                                      Authoritative |-> TRUE, Answer |-> <<>>]>>
                 /\ req[s].ret = Return("netbox", RcodeSuccess, req[s].err)

C2_Witness ==
    \E s \in Slots :
        /\ Done(s)
        /\ req[s].err = "could not unmarshal response"
        /\ Len(req[s].answers) > 0
        /\ ~Through(n.Fall, req[s].qname)
        /\ Len(req[s].msgs) = 1

\* C3: a lookup that succeeds with no converted record is answered by one
\* authoritative NXDOMAIN without answers and not delegated when
\* fallthrough does not cover the name, and is delegated without any
\* write when it does.
C3_EmptyAnswerDisposition ==
    \A s \in Slots :
        (Done(s) /\ req[s].zone # <<>> /\ req[s].err = nil /\ Len(req[s].answers) = 0) =>
            IF Through(n.Fall, req[s].qname)
            THEN /\ req[s].delegated = 1
                 /\ req[s].msgs = <<>>
            ELSE /\ req[s].delegated = 0
                 /\ req[s].msgs = <<[Rcode |-> RcodeNameError,
                                      Authoritative |-> TRUE, Answer |-> <<>>]>>

C3_Witness ==
    \E s \in Slots :
        /\ Done(s)
        /\ Len(req[s].replies) = 1
        /\ ~Failed(req[s].replies[1])
        /\ req[s].answers = <<>>
        /\ Through(n.Fall, req[s].qname)
        /\ req[s].delegated = 1

\* the records the lookups of a finished question were converted to, in
\* the order of the backend's replies
Converted(r) ==
    CASE r.mode = "plugin" ->
            [k \in 1..r.len |-> RR(r.records[k])]
            \o [k \in 1..Len(r.zones) |-> ZoneRR(r.zones[k])]
      [] r.mode = "native" /\ r.qtype = TypeA -> a(r.qname, n.TTL, r.ips)
      [] r.mode = "native" /\ r.qtype = TypeAAAA -> aaaa(r.qname, n.TTL, r.ips)
      [] r.mode = "native" /\ r.qtype = TypePTR -> ptr(r.qname, n.TTL, r.domains)
      [] OTHER -> <<>>

\* C4: a lookup that succeeds with one or more converted records is
\* answered by one authoritative success message whose answer section is
\* the converted records in the order produced, whatever the fallthrough
\* setting, and is not delegated.
C4_AnswerDisposition ==
    \A s \in Slots :
        (Done(s) /\ req[s].err = nil /\ Len(req[s].answers) >= 1) =>
            /\ req[s].delegated = 0
            /\ req[s].msgs = <<[Rcode |-> RcodeSuccess, Authoritative |-> TRUE,
                                 Answer |-> Converted(req[s])]>>
            /\ req[s].ret = Return("netbox", RcodeSuccess, nil)

C4_Witness ==
    \E s \in Slots :
        /\ Done(s)
        /\ req[s].err = nil
        /\ Len(req[s].answers) = 2
        /\ req[s].answers[1] # req[s].answers[2]
        /\ Through(n.Fall, req[s].qname)
        /\ Len(req[s].msgs) = 1

\* C5: a question whose name lies in none of the configured zones is
\* handed to the next handler, with no backend lookup of either mode and
\* no message written.
C5_NoZoneDelegates ==
    \A s \in Slots :
        (/\ req[s].pc # "idle"
         /\ \A k \in 1..Len(n.Zones) : ~IsSubDomain(n.Zones[k], req[s].qname)) =>
            /\ Done(s)
            /\ req[s].delegated = 1
            /\ req[s].ret.from = "next"
            /\ req[s].lookups = <<>>
            /\ req[s].replies = <<>>
            /\ req[s].msgs = <<>>

C5_Witness ==
    \E s \in Slots :
        /\ Done(s)
        /\ req[s].qname = NameOther
        /\ req[s].delegated = 1
        /\ n.UsePlugin

\* the question asks for addresses, the only questions queryDNSPlugin
\* resolves aliases for
AddressQuestion(r) == r.mode = "plugin" /\ (r.qtype = TypeA \/ r.qtype = TypeAAAA)

\* the reply is a decoded "results" list of exactly one record of the type
OneRecord(reply, type) ==
    /\ ~Failed(reply)
    /\ reply.hasResults
    /\ Len(reply.results) = 1
    /\ reply.results[1].Type = type

\* C6: in rich mode an address question whose first lookup returns a
\* single CNAME and whose lookup of the alias target returns one address
\* record is answered by exactly two records, the CNAME and then the
\* address record.
C6_AliasThenAddress ==
    \A s \in Slots :
        (/\ Done(s)
         /\ AddressQuestion(req[s])
         /\ Len(req[s].replies) = 2
         /\ OneRecord(req[s].replies[1], "CNAME")
         /\ OneRecord(req[s].replies[2], IF req[s].qtype = TypeA THEN "A" ELSE "AAAA")) =>
            req[s].answers = <<RR(req[s].replies[1].results[1]),
                               RR(req[s].replies[2].results[1])>>

\* C7: in rich mode, when the first lookup of an address question
\* succeeds and the lookup of an alias target fails, the question has no
\* error; with a single CNAME in the first reply the answer is exactly
\* that CNAME, written as a success message.
C7_TargetErrorSwallowed ==
    \A s \in Slots :
        /\ (/\ AddressQuestion(req[s])
            /\ Len(req[s].replies) >= 2
            /\ ~Failed(req[s].replies[1])
            /\ \E k \in 2..Len(req[s].replies) : Failed(req[s].replies[k])) =>
                req[s].err = nil
        /\ (/\ Done(s)
            /\ AddressQuestion(req[s])
            /\ Len(req[s].replies) = 2
            /\ OneRecord(req[s].replies[1], "CNAME")
            /\ Failed(req[s].replies[2])) =>
                /\ req[s].err = nil
                /\ req[s].answers = <<RR(req[s].replies[1].results[1])>>
                /\ req[s].msgs = <<Msg(RcodeSuccess, req[s].answers)>>
                /\ req[s].delegated = 0

C7_Witness ==
    \E s \in Slots :
        /\ Done(s)
        /\ req[s].qtype = TypeA
        /\ Len(req[s].replies) = 2
        /\ OneRecord(req[s].replies[1], "CNAME")
        /\ req[s].replies[2].transport = "err"
        /\ req[s].answers = <<RR(RecCNAME)>>

\* the question types the README lists for the mode
Supported(mode, qtype) ==
    IF mode = "plugin"
    THEN qtype \in {TypeA, TypeAAAA, TypePTR, TypeNS, TypeSOA, TypeMX, TypeTXT, TypeCNAME}
    ELSE qtype \in {TypeA, TypeAAAA, TypePTR}

\* C8: a question in a matched zone whose type the active mode does not
\* support ends with "request type not implemented" without any backend
\* lookup, and is disposed of as a lookup error is: delegated when
\* fallthrough covers the name, else one authoritative SERVFAIL and the
\* error returned; no supported type ends with that error.
C8_UnsupportedType ==
    \A s \in Slots :
        /\ (req[s].pc # "idle" /\ req[s].zone # <<>> /\ ~Supported(req[s].mode, req[s].qtype)) =>
              /\ Done(s)
              /\ req[s].err = NotImplemented
              /\ req[s].lookups = <<>>
              /\ req[s].replies = <<>>
              /\ IF Through(n.Fall, req[s].qname)
                 THEN req[s].delegated = 1 /\ req[s].msgs = <<>>
                 ELSE /\ req[s].delegated = 0
                      /\ req[s].msgs = <<Msg(RcodeServerFailure, <<>>)>>
                      /\ req[s].ret = Return("netbox", RcodeSuccess, NotImplemented)
        /\ req[s].err = NotImplemented => ~Supported(req[s].mode, req[s].qtype)

C8_Witness ==
    \E s \in Slots :
        /\ Done(s)
        /\ req[s].mode = "plugin"
        /\ req[s].qtype = TypeNone
        /\ req[s].err = NotImplemented
        /\ ~Through(n.Fall, req[s].qname)
        /\ Len(req[s].msgs) = 1

LookupErrors ==
    {"problem performing request", "bad HTTP response code", "could not unmarshal response"}

\* C9: in rich mode a transport error, a status other than 200 and a body
\* that fails to decode each make queryRecord and queryZone return a
\* lookup error; a question whose first lookup failed so is never
\* answered as a name without records (NXDOMAIN) or with a success
\* message.
C9_FailedReplyIsLookupError ==
    \A s \in Slots :
        /\ \A k \in 1..Len(req[s].replies) :
              (req[s].mode = "plugin" /\ Failed(req[s].replies[k])) =>
                  (IF req[s].qtype = TypeSOA
                   THEN queryZone(req[s].replies[k])
                   ELSE queryRecord(req[s].replies[k])).err \in LookupErrors
        /\ (/\ req[s].mode = "plugin"
            /\ Len(req[s].replies) >= 1
            /\ Failed(req[s].replies[1])) =>
              /\ req[s].err \in LookupErrors
              /\ Done(s) => \A k \in 1..Len(req[s].msgs) :
                                req[s].msgs[k].Rcode = RcodeServerFailure

C9_Witness ==
    \E s \in Slots :
        /\ Done(s)
        /\ req[s].mode = "plugin"
        /\ Len(req[s].replies) = 1
        /\ req[s].replies[1].transport = "ok"
        /\ req[s].replies[1].status = StatusOK
        /\ req[s].replies[1].syntaxOK
        /\ ~req[s].replies[1].typesOK
        /\ req[s].records # <<>>
        /\ req[s].msgs = <<Msg(RcodeServerFailure, <<>>)>>

\* the absoluteValue is "<preference> <exchange-host>": two tokens around
\* one space, the first a decimal number
IsPrefAndHost(rec) ==
    LET tokens == Split(rec.AbsoluteValue, " ")
    IN  /\ Len(tokens) = 2
        /\ tokens[1] # <<>>
        /\ \A k \in 1..Len(tokens[1]) : IsDigit(tokens[1][k])

\* C10: an MX record whose absoluteValue is "<preference> <exchange-host>"
\* is answered as an MX record with that preference and exchange, and an
\* MX record whose absoluteValue is not two tokens is dropped from the
\* answer.
C10_MXConversion ==
    \A s \in Slots :
        (/\ Done(s)
         /\ req[s].mode = "plugin"
         /\ req[s].qtype = TypeMX
         /\ req[s].err = nil
         /\ \A k \in 1..req[s].len : req[s].records[k].Type = "MX") =>
            LET good == SelectSeq(req[s].records, IsPrefAndHost)
            IN  /\ Len(req[s].answers) = Len(good)
                /\ \A k \in 1..Len(good) :
                      LET tokens == Split(good[k].AbsoluteValue, " ")
                      IN  /\ req[s].answers[k].Kind = "MX"
                          /\ req[s].answers[k].Preference = DecValue(tokens[1])
                          /\ req[s].answers[k].Host = tokens[2]

\* the payload of the record converts to a valid resource record: an
\* address that parses, an MX value of a preference and a host, a name or
\* a text; a record of any other type does not convert
Convertible(rec) ==
    CASE rec.Type \in {"A", "AAAA"} -> ParseIP(rec.AbsoluteValue) # <<>>
      [] rec.Type = "MX" ->
            /\ Len(Split(rec.AbsoluteValue, " ")) = 2
            /\ ParseInt(Split(rec.AbsoluteValue, " ")[1]).ok
      [] rec.Type \in {"CNAME", "PTR", "NS", "TXT"} -> TRUE
      [] OTHER -> FALSE

\* C11: in rich mode the answer of a question whose lookup succeeded is
\* the conversion of the convertible records of the reply, in order: a
\* record that cannot be converted adds nothing to it and takes nothing
\* from it, and a reply of unconvertible records only is disposed of as a
\* lookup without records is (NXDOMAIN, or delegated under fallthrough).
C11_UnconvertibleSkipped ==
    \A s \in Slots :
        (/\ Done(s)
         /\ req[s].mode = "plugin"
         /\ req[s].qtype # TypeSOA
         /\ req[s].err = nil
         /\ Len(req[s].replies) = 1) =>
            LET good == SelectSeq(req[s].records, Convertible)
            IN  /\ req[s].answers = [k \in 1..Len(good) |-> RR(good[k])]
                /\ good = <<>> =>
                      IF Through(n.Fall, req[s].qname)
                      THEN req[s].delegated = 1 /\ req[s].msgs = <<>>
                      ELSE req[s].msgs = <<Msg(RcodeNameError, <<>>)>>

\* ------------------------------------------------------------------------
\* Conversion of backend records and zones on their own
\* ------------------------------------------------------------------------

\* longest list of records or zones that is converted
MaxConvert == 2

RecANoTTL == DNSRecord("A", 0, <<"1", ".", "2", ".", "3", ".", "4">>, NameMail)
RecABadIP == DNSRecord("A", 8600, <<"1", ".", "2", ".", "3">>, NameMail)
RecAAAA == DNSRecord("AAAA", 8600, <<"2", "0", "0", "1", ":", "d", "b", "8", ":", ":", "1">>, NameMail)
RecPTR == DNSRecord("PTR", 8600, NameMail, <<"1", ".", "i", ".">>)
RecNS == DNSRecord("NS", 0, NameMail, ZoneExample)
RecTXT == DNSRecord("TXT", 8600, <<"T", " ", "E">>, ZoneExample)
RecMXNegative == DNSRecord("MX", 8600, <<"-", "1", " ">> \o NameMail, ZoneExample)
RecMXLarge == DNSRecord("MX", 8600, <<"7", "0", "0", "0", "0", " ">> \o NameMail, ZoneExample)
RecMXNoNumber == DNSRecord("MX", 8600, <<"x", " ">> \o NameMail, ZoneExample)
RecSRV == DNSRecord("SRV", 8600, NameMail, ZoneExample)

ConvertRecords ==
    BackendRecords \cup {RecANoTTL, RecABadIP, RecAAAA, RecPTR, RecNS, RecTXT,
                         RecMXNegative, RecMXLarge, RecMXNoNumber, RecSRV}

ZoneRecOrg == DNSZone(<<"o">>, <<"n", ".", "o">>, <<"h", ".", "o">>, 1, 2, 3, 4, 5, 0)

ConvertZones == {ZoneRec, ZoneRecOrg}

\* a reply of records to a question that asks for neither addresses nor
\* the SOA, or a reply of zones to a question that asks for the SOA
ConvertCalls ==
    {[Idle EXCEPT !.pc = "convert", !.mode = "plugin", !.qtype = TypeNS,
                  !.records = l, !.len = Len(l), !.i = 1] :
        l \in SeqsUpTo(ConvertRecords, MaxConvert) \ {<<>>}}
    \cup
    {[Idle EXCEPT !.pc = "convert", !.mode = "plugin", !.qtype = TypeSOA,
                  !.zones = l, !.i = 1] :
        l \in SeqsUpTo(ConvertZones, MaxConvert) \ {<<>>}}

ConvertInit ==
    /\ n \in [Url : {"https://example.org"}, Token : {"s3kr3tt0ken"},
              TTL : {3600}, Fall : {<<>>}, Zones : {<<ZoneExample>>},
              UsePlugin : {TRUE}]
    /\ ready = TRUE
    /\ \E call \in ConvertCalls : req = [s \in Slots |-> IF s \in Workers THEN call ELSE Idle]

\* queryDNSPlugin, one round of the loop over the records when no alias
\* is resolved: answers = append(answers, record.RR())
ConvertRecord(s) ==
    LET r == req[s]
    IN  /\ r.pc = "convert"
        /\ r.i <= r.len
        /\ req' = [req EXCEPT ![s] = [r EXCEPT !.answers = Append(@, RR(r.records[r.i])),
                                               !.i = @ + 1]]
        /\ UNCHANGED <<n, ready>>

\* queryDNSPlugin, one round of the loop over the zones:
\* answers = append(answers, zone.RR())
ConvertZone(s) ==
    LET r == req[s]
    IN  /\ r.pc = "convert"
        /\ r.i > r.len
        /\ r.i - r.len <= Len(r.zones)
        /\ req' = [req EXCEPT ![s] = [r EXCEPT !.answers = Append(@, ZoneRR(r.zones[r.i - r.len])),
                                               !.i = @ + 1]]
        /\ UNCHANGED <<n, ready>>

ConvertNext ==
    \/ \E s \in Workers : ConvertRecord(s)
    \/ \E s \in Workers : ConvertZone(s)

ConvertSpec == ConvertInit /\ [][ConvertNext]_vars

\* the numeric type of each record type the rich backend is asked for
RecordTypeNumber ==
    [t \in {"A", "AAAA", "CNAME", "PTR", "NS", "MX", "TXT"} |->
        CASE t = "A" -> 1 [] t = "AAAA" -> 28 [] t = "CNAME" -> 5 [] t = "PTR" -> 12
          [] t = "NS" -> 2 [] t = "MX" -> 15 [] t = "TXT" -> 16]

C16_SOAFromZone ==
    \A s \in Slots : \A k \in 1..Len(req[s].answers) :
        (req[s].pc = "convert" /\ k > req[s].len) =>
            LET z == req[s].zones[k - req[s].len]
                soa == req[s].answers[k]
            IN  /\ soa.Kind = "SOA"
                /\ soa.Hdr.Name = Append(z.Name, ".")
                /\ soa.Hdr.Rrtype = 6
                /\ soa.Hdr.Class = 1
                /\ soa.Hdr.Ttl = z.TTL
                /\ soa.Host = Append(z.MName, ".")
                /\ soa.Mbox = Append(z.RName, ".")
                /\ soa.Serial = z.Serial
                /\ soa.Refresh = z.Refresh
                /\ soa.Retry = z.Retry
                /\ soa.Expire = z.Expire
                /\ soa.Minttl = z.Minimum

C16_Witness ==
    \E s \in Slots :
        /\ req[s].pc = "convert"
        /\ req[s].zones = <<ZoneRec, ZoneRecOrg>>
        /\ Len(req[s].answers) = 2
        /\ req[s].answers[1].Hdr.Name = ZoneExample
        /\ req[s].answers[1].Refresh = 43
        /\ req[s].answers[1].Expire = 24
        /\ req[s].answers[2].Hdr.Ttl = 0

\* ------------------------------------------------------------------------
\* The legacy path on its own, under either configured default TTL
\* ------------------------------------------------------------------------

\* ttl 1800s and ttl 60m, in seconds as uint32(n.TTL.Seconds()) has them
DefaultTTLs == {1800, 3600}

LegacyInit ==
    /\ n \in [Url : {"https://example.org"}, Token : {"s3kr3tt0ken"},
              TTL : DefaultTTLs, Fall : FallConfigs, Zones : ZoneConfigs,
              UsePlugin : {FALSE}]
    /\ ready = FALSE
    /\ req = [s \in Slots |-> Idle]

LegacyNext ==
    \/ \E s \in Workers, qname \in QNames, qtype \in QTypes : ServeDNS(s, qname, qtype)
    \/ \E s \in Workers, reply \in IPReplies : AddressReply(s, reply)
    \/ \E s \in Workers, reply \in DomainReplies : ReverseReply(s, reply)
    \/ \E s \in Workers : Finish(s)

LegacySpec == LegacyInit /\ [][LegacyNext]_vars

\* C12: in legacy mode an address record whose backend entry has no ttl
\* (or ttl 0) is answered with the configured default (1800 for 1800s,
\* 3600 for 60m), and one whose entry carries a ttl of its own, such as
\* 8600, is answered with that ttl.
C12_LegacyTTL ==
    \A s \in Slots :
        (/\ Done(s)
         /\ req[s].mode = "native"
         /\ req[s].qtype \in {TypeA, TypeAAAA}
         /\ req[s].err = nil) =>
            /\ Len(req[s].answers) = Len(req[s].replies[1].results)
            /\ \A k \in 1..Len(req[s].answers) :
                  LET entry == req[s].replies[1].results[k]
                  IN  req[s].answers[k].Hdr.Ttl =
                          IF entry.TTL = 0 THEN n.TTL ELSE entry.TTL

\* C12 as amended: in legacy mode every record of an answer carries the
\* configured default (1800 for 1800s, 3600 for 60m) as its ttl, whether
\* the backend entry it comes from has a ttl of its own or not.
C12_LegacyDefaultTTL ==
    \A s \in Slots :
        (Done(s) /\ req[s].mode = "native" /\ req[s].err = nil) =>
            /\ Len(req[s].answers) = Len(req[s].replies[1].results)
            /\ \A k \in 1..Len(req[s].answers) : req[s].answers[k].Hdr.Ttl = n.TTL

C12_Witness ==
    \E s \in Slots :
        /\ Done(s)
        /\ req[s].mode = "native"
        /\ req[s].qtype = TypeA
        /\ n.TTL = 1800
        /\ Len(req[s].answers) = 2
        /\ req[s].replies[1].results[1].TTL = 0
        /\ req[s].replies[1].results[2].TTL = 8600
        /\ req[s].answers[1].Hdr.Ttl = 1800
        /\ req[s].answers[2].Hdr.Ttl = 1800

\* the name lies in one of the zones fallthrough is configured for;
\* fallthrough configured without zones lists the root, no fallthrough
\* lists nothing
Covered(fall, qname) == \E k \in 1..Len(fall) : IsSubDomain(fall[k], qname)

\* C14: a question in a matched zone is delegated only if its name lies
\* in a configured fallthrough zone and it failed or has no records; one
\* that failed or has no records is delegated if its name lies in such a
\* zone (in every case when fallthrough lists no zones) and is otherwise
\* answered directly with SERVFAIL or NXDOMAIN; without fallthrough none
\* is delegated.
C14_FallthroughGate ==
    \A s \in Slots :
        (Done(s) /\ req[s].zone # <<>>) =>
            LET noAnswer == req[s].err # nil \/ req[s].answers = <<>>
            IN  /\ req[s].delegated = 1 <=> (noAnswer /\ Covered(n.Fall, req[s].qname))
                /\ (noAnswer /\ ~Covered(n.Fall, req[s].qname)) =>
                      req[s].msgs = <<Msg(IF req[s].err # nil THEN RcodeServerFailure
                                          ELSE RcodeNameError, <<>>)>>
                /\ n.Fall = <<Root>> => (req[s].delegated = 1 <=> noAnswer)
                /\ n.Fall = <<>> => req[s].delegated = 0

C14_Witness ==
    \E s \in Slots :
        /\ Done(s)
        /\ n.Fall = <<NameMail>>
        /\ req[s].qname = NameAlias
        /\ req[s].zone = ZoneExample
        /\ req[s].err = nil
        /\ req[s].answers = <<>>
        /\ req[s].delegated = 0
        /\ req[s].msgs = <<Msg(RcodeNameError, <<>>)>>

\* C15: a run of the probe returns true exactly when the status request
\* has no transport error, status 200 and a body that parses, and then
\* sets the mode flag to rich iff the reported netbox_dns version is not
\* empty; otherwise it returns false and leaves the Netbox struct, the
\* mode flag included, as it was.
C15_ReadyProbe ==
    [][\A reply \in StatusReplies :
          Ready(reply) =>
              LET ok == /\ reply.transport = "ok"
                        /\ reply.status = 200
                        /\ reply.syntaxOK
                        /\ reply.typesOK
                  version == IF reply.hasResults THEN reply.results ELSE <<>>
              IN  /\ ready' = ok
                  /\ ok => n' = [n EXCEPT !.UsePlugin = (version # <<>>)]
                  /\ ~ok => n' = n]_vars

\* a probe that failed after one that found the netbox_dns app: it
\* returned false and the flag is still rich
C15_Witness == ready = FALSE /\ n.UsePlugin = TRUE

\* the CNAME records among the records the first lookup returned
FirstAliases(r) ==
    SelectSeq(SubSeq(r.records, 1, r.len), LAMBDA rec : rec.Type = "CNAME")

\* C17: in rich mode a question that asks for records is looked up once,
\* and an address question once more for each CNAME record of the first
\* lookup's result, in their order: by queryRecord, in the matched zone,
\* for the CNAME's absoluteValue, with the type parameters of the question
\* type. Nothing else is looked up: not the CNAMEs a target lookup
\* returns, nothing more for another question type, and no lookup twice;
\* each lookup gets one reply, so a finished question has made exactly
\* 1 + (number of CNAMEs of the first result) lookups.
C17_LookupCount ==
    \A s \in Slots :
        (req[s].mode = "plugin" /\ req[s].qtype # TypeSOA /\ req[s].lookups # <<>>) =>
            LET r == req[s]
                extra == IF Len(r.replies) = 0 THEN <<>>
                         ELSE IF r.qtype \in {TypeA, TypeAAAA} THEN FirstAliases(r)
                         ELSE <<>>
                params == CASE r.qtype = TypeA -> <<"A", "CNAME">>
                            [] r.qtype = TypeAAAA -> <<"AAAA", "CNAME">>
                            [] OTHER -> <<>>
            IN  /\ Len(r.lookups) <= 1 + Len(extra)
                /\ Len(r.lookups) - Len(r.replies) \in {0, 1}
                /\ Done(s) => /\ Len(r.lookups) = 1 + Len(extra)
                              /\ Len(r.replies) = Len(r.lookups)
                /\ \A k \in 2..Len(r.lookups) :
                      r.lookups[k] = [fn |-> "queryRecord", zone |-> r.zone,
                                      fqdn |-> extra[k - 1].AbsoluteValue,
                                      querySet |-> params, family |-> 0]

\* an address question with two CNAMEs in the first result, the lookup of
\* the first of which returns a CNAME that points at the name looked up
C17_Witness ==
    \E s \in Slots :
        /\ Done(s)
        /\ req[s].qtype = TypeAAAA
        /\ Len(req[s].replies) = 3
        /\ req[s].replies[1].results = <<RecCNAME, RecCNAME>>
        /\ OneRecord(req[s].replies[2], "CNAME")
        /\ req[s].replies[2].results[1].AbsoluteValue = req[s].lookups[2].fqdn
        /\ Len(req[s].lookups) = 3

\* the type parameters each question type asks the rich backend for
QueryTypes ==
    [qtype \in {1, 28, 12, 5, 2, 15, 16} |->
        CASE qtype = 1 -> <<"A", "CNAME">>
          [] qtype = 28 -> <<"AAAA", "CNAME">>
          [] qtype = 12 -> <<"PTR">>
          [] qtype = 5 -> <<"CNAME">>
          [] qtype = 2 -> <<"NS">>
          [] qtype = 15 -> <<"MX">>
          [] qtype = 16 -> <<"TXT">>]

\* C18: in rich mode an SOA question makes one lookup, queryZone for the
\* matched zone, never queryRecord and so no alias resolution; a question
\* of another supported type first calls queryRecord with the matched
\* zone, the question name and the type parameters of its type: A and
\* CNAME for A, AAAA and CNAME for AAAA, its own type alone for PTR, CNAME,
\* NS, MX and TXT.
C18_RichRouting ==
    \A s \in Slots :
        (req[s].mode = "plugin" /\ req[s].zone # <<>>) =>
            /\ req[s].qtype = 6 =>
                  /\ req[s].lookups = <<[fn |-> "queryZone", zone |-> req[s].zone,
                                         fqdn |-> <<>>, querySet |-> <<>>, family |-> 0]>>
                  /\ req[s].records = <<>>
            /\ req[s].qtype \in DOMAIN QueryTypes =>
                  /\ req[s].lookups # <<>>
                  /\ req[s].lookups[1] = [fn |-> "queryRecord", zone |-> req[s].zone,
                                          fqdn |-> req[s].qname,
                                          querySet |-> QueryTypes[req[s].qtype],
                                          family |-> 0]
                  /\ \A k \in 1..Len(req[s].lookups) : req[s].lookups[k].fn = "queryRecord"
                  /\ req[s].zones = <<>>

C18_Witness ==
    \E s \in Slots :
        /\ req[s].pc = "queryRecord"
        /\ req[s].mode = "plugin"
        /\ req[s].qtype = TypeA
        /\ req[s].qname = NameAlias
        /\ req[s].lookups[1].querySet = <<"A", "CNAME">>
        /\ req[s].lookups[1].zone = ZoneExample

\* C19: once a run of the probe has succeeded and set the mode flag, no
\* step changes the flag: neither the handling of a question nor another
\* run of the probe.
C19_ModeDecidedOnce == [][ready => n'.UsePlugin = n.UsePlugin]_vars

\* the configured zones the name is a suffix match for, in configured order
SuffixMatches(zones, qname) ==
    SelectSeq(zones, LAMBDA z : IsSubDomain(z, qname))

\* C20: in rich mode the zone passed to the backend lookup of a question
\* is the first configured zone whose suffix matches the question name.
C20_FirstZoneWins ==
    \A s \in Slots :
        (req[s].mode = "plugin" /\ req[s].lookups # <<>>) =>
            req[s].lookups[1].zone = SuffixMatches(n.Zones, req[s].qname)[1]

\* C20 as amended: in rich mode the zone passed to the backend lookups of
\* a question is the longest configured zone whose suffix matches the
\* question name, wherever it stands in the configured list.
C20_LongestZoneWins ==
    \A s \in Slots :
        (req[s].mode = "plugin" /\ req[s].lookups # <<>>) =>
            LET hits == SuffixMatches(n.Zones, req[s].qname)
            IN  \A k \in 1..Len(req[s].lookups) :
                    /\ \E j \in 1..Len(hits) : req[s].lookups[k].zone = hits[j]
                    /\ \A j \in 1..Len(hits) : Len(hits[j]) <= Len(req[s].lookups[k].zone)

\* zones "o." then "e.o.", question "a.e.o.": the lookup is made in "e.o."
C20_Witness ==
    \E s \in Slots :
        /\ n.Zones = <<ZoneOrg, ZoneExample>>
        /\ req[s].mode = "plugin"
        /\ req[s].qname = NameAlias
        /\ req[s].lookups # <<>>
        /\ req[s].lookups[1].zone = ZoneExample

\* the text is a decimal number without sign that fits a 16-bit preference
IsPreference(token) ==
    /\ token # <<>>
    /\ \A k \in 1..Len(token) : IsDigit(token[k])
    /\ Len(StripZeros(token)) <= 5
    /\ DecValue(StripZeros(token)) <= 65535

\* C21: an MX record of two tokens is answered as an MX record whose
\* preference is the number of its first token when that token is a
\* non-negative integer that fits 16 bits, and fails to convert (is
\* answered by the placeholder, not by an MX record with a wrapped
\* preference) when it is not, as for "-1" and "70000".
C21_MXPreference ==
    \A s \in Slots : \A k \in 1..Len(req[s].answers) :
        (/\ req[s].pc = "convert"
         /\ k <= req[s].len
         /\ req[s].records[k].Type = "MX"
         /\ Len(Split(req[s].records[k].AbsoluteValue, " ")) = 2) =>
            LET token == Split(req[s].records[k].AbsoluteValue, " ")[1]
            IN  IF IsPreference(token)
                THEN /\ req[s].answers[k].Kind = "MX"
                     /\ req[s].answers[k].Preference = DecValue(token)
                ELSE req[s].answers[k].Kind = "NULL"

\* C22: an A or AAAA record whose absoluteValue is no IP literal fails to
\* convert and is answered by the placeholder, never by an address record
\* without address; one whose absoluteValue parses is answered by an
\* address record that holds the parsed address.
C22_AddressConversion ==
    \A s \in Slots : \A k \in 1..Len(req[s].answers) :
        (/\ req[s].pc = "convert"
         /\ k <= req[s].len
         /\ req[s].records[k].Type \in {"A", "AAAA"}) =>
            IF ParseIP(req[s].records[k].AbsoluteValue) = <<>>
            THEN req[s].answers[k].Kind = "NULL"
            ELSE /\ req[s].answers[k].Kind = req[s].records[k].Type
                 /\ req[s].answers[k].IP = ParseIP(req[s].records[k].AbsoluteValue)
                 /\ req[s].answers[k].IP # <<>>

\* the reply is HTTP 200 with a well-formed JSON object that has no
\* "results" member, or whose "results" list is empty
NoResults(reply) ==
    /\ reply.transport = "ok"
    /\ reply.status = 200
    /\ reply.syntaxOK
    /\ reply.typesOK
    /\ (~reply.hasResults \/ reply.results = <<>>)

\* C23: queryRecord returns no error and no records for a 200 reply
\* whose JSON object has no "results" member and for one whose "results"
\* list is empty; a question whose first lookup is answered so has no
\* error and no answer, and is never answered with SERVFAIL.
C23_NoResultsIsNoError ==
    \A s \in Slots :
        (req[s].mode = "plugin" /\ req[s].qtype # TypeSOA) =>
            /\ \A k \in 1..Len(req[s].replies) :
                  NoResults(req[s].replies[k]) =>
                      queryRecord(req[s].replies[k]) = [out |-> <<>>, err |-> "nil"]
            /\ (Len(req[s].replies) >= 1 /\ NoResults(req[s].replies[1])) =>
                  /\ req[s].records = <<>>
                  /\ req[s].err = "nil"
                  /\ Done(s)
                  /\ req[s].answers = <<>>
                  /\ Len(req[s].lookups) = 1
                  /\ \A k \in 1..Len(req[s].msgs) : req[s].msgs[k].Rcode = RcodeNameError

C23_Witness ==
    \E s \in Slots :
        /\ Done(s)
        /\ req[s].mode = "plugin"
        /\ req[s].qtype = TypeTXT
        /\ Len(req[s].replies) = 1
        /\ req[s].replies[1].status = 200
        /\ req[s].replies[1].syntaxOK
        /\ ~req[s].replies[1].hasResults
        /\ req[s].err = "nil"
        /\ req[s].msgs = <<Msg(RcodeNameError, <<>>)>>

\* the backend functions of each mode
RichLookups == {"queryRecord", "queryZone"}
LegacyLookups == {"query", "queryreverse"}

\* C25: a question takes its mode from the one read of the mode flag at
\* the mode branch, and every backend lookup it makes is of that mode:
\* rich lookups only or legacy lookups only, also when a run of the probe
\* has changed the flag while the question was in flight.
C25_OneVariantPerQuestion ==
    \A s \in Slots :
        /\ \/ \A k \in 1..Len(req[s].lookups) : req[s].lookups[k].fn \in RichLookups
           \/ \A k \in 1..Len(req[s].lookups) : req[s].lookups[k].fn \in LegacyLookups
        /\ req[s].lookups # <<>> =>
              req[s].mode = IF req[s].lookups[1].fn \in RichLookups THEN "plugin" ELSE "native"
        /\ req[s].zone # <<>> => req[s].mode \in {"plugin", "native"}
        /\ req[s].zone = <<>> => req[s].mode = "none"

\* a rich question with two aliases is at the lookup of its second alias
\* target while the flag, after another run of the probe, says legacy
C25_Witness ==
    \E s \in Slots :
        /\ req[s].pc = "resolve"
        /\ req[s].mode = "plugin"
        /\ ready
        /\ ~n.UsePlugin
        /\ Len(req[s].lookups) = 3
        /\ Len(req[s].replies) = 2
        /\ req[s].lookups[3].fn = "queryRecord"

\* ------------------------------------------------------------------------
\* Two questions handled at the same time
\* ------------------------------------------------------------------------

ConcurrentNames == {NameAlias, NameOther}
ConcurrentTypes == {TypeA, TypePTR, TypeSOA}

ConcurrentRecordReplies == Replies({<<RecCNAME>>, <<RecA>>, <<RecCNAME, RecA>>}, {})
ConcurrentTargetReplies == Replies({<<RecA>>}, {})
ConcurrentZoneReplies == Replies({<<ZoneRec>>}, {})
ConcurrentIPReplies == Replies({<<LegacyEntry(<<1, 2, 3, 4>>, 0)>>}, {})
ConcurrentDomainReplies == Replies({<<NameMail>>}, {})

ConcurrentInit ==
    /\ n \in [Url : {"https://example.org"}, Token : {"s3kr3tt0ken"},
              TTL : {3600}, Fall : {<<>>, <<Root>>}, Zones : {<<ZoneExample>>},
              UsePlugin : BOOLEAN]
    /\ ready = TRUE
    /\ req = [s \in Slots |-> Idle]

\* every goroutine takes the steps of ServeDNS at its own pace
ConcurrentNext ==
    \/ \E s \in Slots, qname \in ConcurrentNames, qtype \in ConcurrentTypes :
          ServeDNS(s, qname, qtype)
    \/ \E s \in Slots, reply \in ConcurrentRecordReplies : RecordsReply(s, reply)
    \/ \E s \in Slots, reply \in ConcurrentTargetReplies : TargetReply(s, reply)
    \/ \E s \in Slots, reply \in ConcurrentZoneReplies : ZoneReply(s, reply)
    \/ \E s \in Slots, reply \in ConcurrentIPReplies : AddressReply(s, reply)
    \/ \E s \in Slots, reply \in ConcurrentDomainReplies : ReverseReply(s, reply)
    \/ \E s \in Slots : Finish(s)

ConcurrentSpec == ConcurrentInit /\ [][ConcurrentNext]_vars

\* A question handled alone: ServeDNS run from its call to the state it is
\* in after the given backend replies, as one computation on locals of its
\* own under the configuration cfg.
AloneCall(cfg, qname, qtype) ==
    LET zone == Matches(cfg.Zones, qname)
        call == [Idle EXCEPT !.qname = qname, !.qtype = qtype, !.zone = zone]
        mode == IF cfg.UsePlugin THEN "plugin" ELSE "native"
        fn == IF cfg.UsePlugin
              THEN (IF qtype = TypeSOA THEN "queryZone"
                    ELSE IF DNSQueryReverseMap(qtype) # <<>> THEN "queryRecord" ELSE "")
              ELSE (IF qtype \in {TypeA, TypeAAAA} THEN "query"
                    ELSE IF qtype = TypePTR THEN "queryreverse" ELSE "")
        lookup == CASE fn = "queryZone" -> Lookup(fn, zone, <<>>, <<>>, 0)
                    [] fn = "queryRecord" -> Lookup(fn, zone, qname, DNSQueryReverseMap(qtype), 0)
                    [] fn = "query" -> Lookup(fn, <<>>, TrimRight(qname), <<>>,
                                              IF qtype = TypeA THEN familyIP4 ELSE familyIP6)
                    [] OTHER -> Lookup(fn, <<>>, qname, <<>>, 0)
    IN  IF zone = <<>> THEN NextOrFailure(call)
        ELSE IF fn = ""
        THEN Respond([call EXCEPT !.mode = mode, !.err = NotImplemented], cfg.Fall)
        ELSE [call EXCEPT !.mode = mode, !.pc = fn, !.lookups = <<lookup>>]

AloneReply(cfg, r, reply) ==
    LET got == [r EXCEPT !.replies = Append(@, reply)]
    IN  CASE r.pc = "queryRecord" ->
                ResolveLoop([got EXCEPT !.records = queryRecord(reply).out,
                                        !.err = queryRecord(reply).err,
                                        !.len = Len(queryRecord(reply).out), !.i = 1],
                            cfg.Fall)
          [] r.pc = "resolve" ->
                ResolveLoop([got EXCEPT !.records = IF queryRecord(reply).err = nil
                                                    THEN @ \o queryRecord(reply).out ELSE @,
                                        !.answers = Append(@, RR(r.records[r.i])),
                                        !.i = @ + 1],
                            cfg.Fall)
          [] r.pc = "queryZone" ->
                ResolveLoop([got EXCEPT !.zones = queryZone(reply).out,
                                        !.err = queryZone(reply).err,
                                        !.len = 0, !.i = 1],
                            cfg.Fall)
          [] r.pc = "query" ->
                Respond([got EXCEPT !.ips = query(reply).out, !.err = query(reply).err,
                                    !.answers = IF r.qtype = TypeA
                                                THEN a(r.qname, cfg.TTL, query(reply).out)
                                                ELSE aaaa(r.qname, cfg.TTL, query(reply).out)],
                        cfg.Fall)
          [] r.pc = "queryreverse" ->
                Respond([got EXCEPT !.domains = queryreverse(reply).out,
                                    !.err = queryreverse(reply).err,
                                    !.answers = ptr(r.qname, cfg.TTL, queryreverse(reply).out)],
                        cfg.Fall)
          [] OTHER -> r

RECURSIVE AloneRun(_, _, _, _)
AloneRun(cfg, r, replies, k) ==
    IF k > Len(replies) THEN r
    ELSE AloneRun(cfg, AloneReply(cfg, r, replies[k]), replies, k + 1)

Alone(cfg, qname, qtype, replies) ==
    AloneRun(cfg, AloneCall(cfg, qname, qtype), replies, 1)

\* every question in flight is where it would be had it been handled
\* alone with the backend replies it has had
AsIfAlone ==
    \A s \in Slots :
        req[s].pc # "idle" =>
            req[s] = Alone(n, req[s].qname, req[s].qtype, req[s].replies)

\* C24: the steps of handling a question leave the Netbox struct (url,
\* token, zones, default TTL, fallthrough zones, mode flag) as it is, and
\* however the steps of two questions interleave, each question's lookups,
\* answers and disposition are those it has when handled alone with the
\* same backend replies.
C24_QuestionsIndependent == []AsIfAlone /\ [][n' = n]_vars

\* two questions are in flight at once with different backend replies:
\* each has had the reply to its first lookup and waits for the reply to
\* the lookup of its alias target
C24_Witness ==
    /\ req[1].pc = "resolve" /\ req[2].pc = "resolve"
    /\ req[1].qname = NameAlias /\ req[2].qname = NameAlias
    /\ req[1].qtype = TypeA /\ req[2].qtype = TypeA
    /\ req[1].records = <<RecCNAME>>
    /\ req[2].records = <<RecCNAME, RecA>>
    /\ Len(req[1].replies) = 1 /\ Len(req[2].replies) = 1

====
